---- MODULE Spec2Model ----
(***************************************************************************)
(* Model of drfdapc/permissions.py: the permission functions, the          *)
(* authenticated_users decorator and the three permission classes          *)
(* DABasePermission, DARWBasePermission and DACrudBasePermission.          *)
(*                                                                         *)
(* A call's outcome is one of the strings "True", "False" (the returned    *)
(* boolean) or the name of the exception it raises.  A call's arguments    *)
(* are Python's args and kwargs: a sequence of positional values and a     *)
(* function from keyword names to values.                                  *)
(***************************************************************************)
EXTENDS Naturals, Sequences, FiniteSets

VARIABLES
    policy,     \* the class of the permission instance
    perms,      \* the instance's *_permissions attributes: name -> tuple of functions
    op,         \* "idle", or the method or call whose outcome is being returned
    called,     \* the permission function of the last direct call ("none" otherwise)
    args,       \* the last call's positional arguments
    kwargs,     \* the last call's keyword arguments
    result,     \* the last call's outcome ("none" before any call)
    calls,      \* the checks the framework's threads run step by step: thread -> call
    frames      \* the loop each running check is in: frame -> tuple and index

vars == <<policy, perms, op, called, args, kwargs, result, calls, frames>>

(***************************************************************************)
(* Bounds of the model.                                                    *)
(***************************************************************************)
\* Size of an instance's configuration: every attribute that differs from its
\* default counts for the length of its tuple (an empty tuple counts for one).
MaxConfigSize == 2
\* longest shared key, in characters
MaxKeyLen == 2
\* most keys in a view's authorized_keys
MaxKeys == 2

(***************************************************************************)
(* Values supplied by the framework.                                       *)
(***************************************************************************)
\* request.user: the three flags the permission functions read
Users == [is_authenticated : BOOLEAN, is_staff : BOOLEAN, is_superuser : BOOLEAN]

\* rest_framework.permissions.SAFE_METHODS
SAFE_METHODS == {"GET", "HEAD", "OPTIONS"}

\* request.method: the seven standard methods and one the classes do not name
Methods == SAFE_METHODS \cup {"POST", "PUT", "PATCH", "DELETE", "TRACE"}

\* the identities the framework's authentication yields: AnonymousUser (no
\* flag set) and the authenticated users
Identities == {u \in Users : u.is_authenticated \/ (~u.is_staff /\ ~u.is_superuser)}

Requests == [user : Users, method : Methods]

FrameworkRequests == {r \in Requests : r.user \in Identities}

\* the view argument: the tests pass None
NoView == [is_none |-> TRUE]

\* the target object: the tests' mock with its allows_access attribute
Objects == [allows_access : BOOLEAN]

\* Python values the key check compares: a str with its characters, and None
PyStr(chars) == [type |-> "str", chars |-> chars]

PyNone == [type |-> "NoneType", chars |-> <<>>]

\* a tuple or a list with its items
PySeq(type, items) == [type |-> type, items |-> items]

\* one character is enough to tell a key from its beginning and from its
\* extension
KeyChars == {"a"}

RECURSIVE StringsUpTo(_)
StringsUpTo(n) ==
    IF n = 0 THEN {<<>>}
    ELSE StringsUpTo(n - 1) \cup
         {Append(w, c) : w \in {v \in StringsUpTo(n - 1) : Len(v) = n - 1}, c \in KeyChars}

\* the shared keys: the str values of up to MaxKeyLen characters
Keys == {PyStr(w) : w \in StringsUpTo(MaxKeyLen)}

RECURSIVE KeySeqsUpTo(_)
KeySeqsUpTo(n) ==
    IF n = 0 THEN {<<>>}
    ELSE KeySeqsUpTo(n - 1) \cup
         {Append(t, k) : t \in {u \in KeySeqsUpTo(n - 1) : Len(u) = n - 1}, k \in Keys}

\* view.authorized_keys as the integrator may set it: a tuple, a list, or by
\* mistake a single str or None
AuthorizedKeys ==
    {PySeq(type, items) : type \in {"tuple", "list"}, items \in KeySeqsUpTo(MaxKeys)}
        \cup Keys \cup {PyNone}

KeyViews == [authorized_keys : AuthorizedKeys]

\* request.META: with or without the Authorization header
NoMeta == [n \in {} |-> n]

Metas == {NoMeta} \cup {[n \in {"HTTP_AUTHORIZATION"} |-> k] : k \in Keys}

\* dict.get(name): the value, None when the name is missing
DictGet(d, name) == IF name \in DOMAIN d THEN d[name] ELSE PyNone

\* a lookup that removes what it finds, as dict.pop does
DictAfterPop(d, name) == [n \in DOMAIN d \ {name} |-> d[n]]

\* the dict after dict.get(name): get reads it and leaves it as it was
DictAfterGet(d, name) == d

\* isinstance(x, (tuple, list))
IsTupleOrList(x) == x.type \in {"tuple", "list"}

\* key in seq: some item of the tuple or list equals key
In(key, seq) == \E i \in 1..Len(seq.items) : seq.items[i] = key

\* a membership test that accepts every key an item starts with
PrefixIn(key, seq) ==
    \E i \in 1..Len(seq.items) :
        /\ key.type = "str"
        /\ Len(key.chars) <= Len(seq.items[i].chars)
        /\ SubSeq(seq.items[i].chars, 1, Len(key.chars)) = key.chars

(***************************************************************************)
(* Python's argument binding.                                              *)
(***************************************************************************)
\* kwargs.get(name) is truthy: the keyword is given (requests, views and
\* objects are truthy values)
HasKw(kw, name) == name \in DOMAIN kw

\* the value bound to the first parameter `request` of a permission function
BoundRequest(a, kw) == IF Len(a) > 0 THEN a[1] ELSE kw["request"]

(***************************************************************************)
(* The permission functions.                                               *)
(***************************************************************************)
deny_all(a, kw) == "False"

\* an allow_all that sits behind the authentication guard
allow_all_guarded(a, kw) ==
    IF ~HasKw(kw, "request") /\ Len(a) = 0
    THEN "TypeError"
    ELSE IF BoundRequest(a, kw).user.is_authenticated THEN "True" ELSE "False"

allow_all(a, kw) == "True"

Bool(b) == IF b THEN "True" ELSE "False"

\* the functions the decorator wraps, called with an authenticated request
raw_allow_superuser(a, kw) == Bool(BoundRequest(a, kw).user.is_superuser)

\* a staff check that also admits superusers
raw_allow_staff_or_superuser(a, kw) ==
    Bool(BoundRequest(a, kw).user.is_staff \/ BoundRequest(a, kw).user.is_superuser)

raw_allow_staff(a, kw) == Bool(BoundRequest(a, kw).user.is_staff)

raw_allow_authenticated(a, kw) == "True"

Wrapped(f, a, kw) ==
    CASE f = "allow_superuser" -> raw_allow_superuser(a, kw)
      [] f = "allow_staff" -> raw_allow_staff(a, kw)
      [] f = "allow_authenticated" -> raw_allow_authenticated(a, kw)

\* a wrapper that forgets the is_authenticated check
func_wrapper_unguarded(f, a, kw) ==
    IF ~HasKw(kw, "request") /\ Len(a) = 0 THEN "TypeError" ELSE Wrapped(f, a, kw)

\* a wrapper that denies instead of raising when it finds no request
func_wrapper_silent(f, a, kw) ==
    IF ~HasKw(kw, "request") /\ Len(a) = 0
    THEN "False"
    ELSE LET request == IF HasKw(kw, "request") THEN kw["request"] ELSE a[1]
         IN  IF ~request.user.is_authenticated
             THEN "False"
             ELSE Wrapped(f, a, kw)

\* a wrapper that finds the request only among the keyword arguments
func_wrapper_keyword_only(f, a, kw) ==
    IF ~HasKw(kw, "request")
    THEN "TypeError"
    ELSE IF ~kw["request"].user.is_authenticated
         THEN "False"
         ELSE Wrapped(f, a, kw)

\* authenticated_users(func): the func_wrapper it returns
func_wrapper(f, a, kw) ==
    IF ~HasKw(kw, "request") /\ Len(a) = 0
    THEN "TypeError"
    ELSE LET request == IF HasKw(kw, "request") THEN kw["request"] ELSE a[1]
         IN  IF ~request.user.is_authenticated
             THEN "False"
             ELSE Wrapped(f, a, kw)

\* func_wrapper reaches its last line, the call of the wrapped function
CallsWrapped(f, a, kw) ==
    /\ f \in {"allow_superuser", "allow_staff", "allow_authenticated"}
    /\ HasKw(kw, "request") \/ Len(a) > 0
    /\ LET request == IF HasKw(kw, "request") THEN kw["request"] ELSE a[1]
       IN  request.user.is_authenticated

allow_superuser(a, kw) == func_wrapper("allow_superuser", a, kw)

allow_staff(a, kw) == func_wrapper("allow_staff", a, kw)

allow_authenticated(a, kw) == func_wrapper("allow_authenticated", a, kw)

\* the tests' object permission: bool(obj.allows_access), False on the
\* AttributeError of the default obj=None
has_access(a, kw) ==
    IF ~HasKw(kw, "obj") THEN "False" ELSE Bool(kw["obj"].allows_access)

\* the value bound to the second parameter `view`
BoundView(a, kw) == IF Len(a) > 1 THEN a[2] ELSE kw["view"]

\* a key check that compares with a str authorized_keys instead of raising
allow_authorized_key_unchecked(a, kw) ==
    LET key == DictGet(BoundRequest(a, kw).META, "HTTP_AUTHORIZATION")
        authorized_keys == BoundView(a, kw).authorized_keys
    IN  IF ~IsTupleOrList(authorized_keys)
        THEN Bool(key = authorized_keys)
        ELSE Bool(In(key, authorized_keys))

\* a key check that accepts the beginning of a key
allow_authorized_key_prefix(a, kw) ==
    LET key == DictGet(BoundRequest(a, kw).META, "HTTP_AUTHORIZATION")
        authorized_keys == BoundView(a, kw).authorized_keys
    IN  IF ~IsTupleOrList(authorized_keys)
        THEN "ImproperlyConfigured"
        ELSE Bool(PrefixIn(key, authorized_keys))

allow_authorized_key(a, kw) ==
    LET key == DictGet(BoundRequest(a, kw).META, "HTTP_AUTHORIZATION")
        authorized_keys == BoundView(a, kw).authorized_keys
    IN  IF ~IsTupleOrList(authorized_keys)
        THEN "ImproperlyConfigured"
        ELSE Bool(In(key, authorized_keys))

GuardedFunctions == {"allow_superuser", "allow_staff", "allow_authenticated"}

PermissionFunctions == {"deny_all", "allow_all", "has_access"} \cup GuardedFunctions

\* calling the function object `f`
Invoke(f, a, kw) ==
    CASE f = "deny_all" -> deny_all(a, kw)
      [] f = "allow_all" -> allow_all(a, kw)
      [] f = "allow_superuser" -> allow_superuser(a, kw)
      [] f = "allow_staff" -> allow_staff(a, kw)
      [] f = "allow_authenticated" -> allow_authenticated(a, kw)
      [] f = "has_access" -> has_access(a, kw)
      [] f = "allow_authorized_key" -> allow_authorized_key(a, kw)

\* a loop that keeps the outcome of the last function: the last one decides
RECURSIVE CheckLastPermission(_, _)
CheckLastPermission(permissions, kw) ==
    IF permissions = <<>>
    THEN "False"
    ELSE IF Len(permissions) = 1
    THEN Invoke(Head(permissions), <<>>, kw)
    ELSE LET r == Invoke(Head(permissions), <<>>, kw)
         IN  IF r \notin {"True", "False"} THEN r
             ELSE CheckLastPermission(Tail(permissions), kw)

\* a loop that looks at the first function only
CheckFirstPermission(permissions, kw) ==
    IF permissions = <<>> THEN "False" ELSE Invoke(Head(permissions), <<>>, kw)

(***************************************************************************)
(* The loop every has_*permission method runs over one tuple:              *)
(*     for permission in permissions:                                      *)
(*         if permission(request=request, view=view): return True          *)
(* "True" when a function returns true, the exception when one raises      *)
(* first, "False" when the tuple is exhausted (the caller falls through).  *)
(***************************************************************************)
RECURSIVE CheckPermissions(_, _)
CheckPermissions(permissions, kw) ==
    IF permissions = <<>>
    THEN "False"
    ELSE LET r == Invoke(Head(permissions), <<>>, kw)
         IN  IF r = "False" THEN CheckPermissions(Tail(permissions), kw) ELSE r

(***************************************************************************)
(* The permission classes.  `self` is the instance's attributes.           *)
(***************************************************************************)
\* the keyword arguments the methods pass to every permission function
ViewKw(request, view) == [n \in {"request", "view"} |-> IF n = "request" THEN request ELSE view]

ObjKw(request, view, obj) ==
    [n \in {"request", "view", "obj"} |->
        IF n = "request" THEN request ELSE IF n = "view" THEN view ELSE obj]

\* a default that lets everyone in
OpenDefaultPermissions == <<"allow_all">>

\* the default of every *_permissions attribute
DefaultPermissions == <<"deny_all">>

DA_Attrs == {"rw_permissions", "object_rw_permissions"}

DARW_Attrs == DA_Attrs \cup
    {"read_permissions", "write_permissions",
     "object_read_permissions", "object_write_permissions"}

DACrud_Attrs == DA_Attrs \cup
    {"read_permissions", "add_permissions", "change_permissions", "delete_permissions",
     "object_read_permissions", "object_add_permissions",
     "object_change_permissions", "object_delete_permissions"}

Policies == {"DABasePermission", "DARWBasePermission", "DACrudBasePermission"}

Attrs(cls) ==
    CASE cls = "DABasePermission" -> DA_Attrs
      [] cls = "DARWBasePermission" -> DARW_Attrs
      [] cls = "DACrudBasePermission" -> DACrud_Attrs

\* a fresh instance of the class
NewInstance(cls) == [a \in Attrs(cls) |-> DefaultPermissions]

DA_has_permission(self, request, view) ==
    CheckPermissions(self["rw_permissions"], ViewKw(request, view))

\* an object check that reads the view-level tuple
DA_has_object_permission_view_level(self, request, view, obj) ==
    CheckPermissions(self["rw_permissions"], ObjKw(request, view, obj))

DA_has_object_permission(self, request, view, obj) ==
    CheckPermissions(self["object_rw_permissions"], ObjKw(request, view, obj))

\* a read/write check that sends HEAD and OPTIONS to the write tuple
DARW_has_permission_get_only(self, request, view) ==
    LET super == DA_has_permission(self, request, view)
    IN  IF super # "False" THEN super
        ELSE IF request.method = "GET"
        THEN CheckPermissions(self["read_permissions"], ViewKw(request, view))
        ELSE CheckPermissions(self["write_permissions"], ViewKw(request, view))

DARW_has_permission(self, request, view) ==
    LET super == DA_has_permission(self, request, view)
    IN  IF super # "False" THEN super
        ELSE IF request.method \in SAFE_METHODS
        THEN CheckPermissions(self["read_permissions"], ViewKw(request, view))
        ELSE CheckPermissions(self["write_permissions"], ViewKw(request, view))

\* a read/write object check that reads the view-level read tuple
DARW_has_object_permission_view_read(self, request, view, obj) ==
    LET super == DA_has_object_permission(self, request, view, obj)
    IN  IF super # "False" THEN super
        ELSE IF request.method \in SAFE_METHODS
        THEN CheckPermissions(self["read_permissions"], ObjKw(request, view, obj))
        ELSE CheckPermissions(self["object_write_permissions"], ObjKw(request, view, obj))

DARW_has_object_permission(self, request, view, obj) ==
    LET super == DA_has_object_permission(self, request, view, obj)
    IN  IF super # "False" THEN super
        ELSE IF request.method \in SAFE_METHODS
        THEN CheckPermissions(self["object_read_permissions"], ObjKw(request, view, obj))
        ELSE CheckPermissions(self["object_write_permissions"], ObjKw(request, view, obj))

\* a CRUD check that sends PATCH to the add tuple
DACrud_has_permission_patch_adds(self, request, view) ==
    LET super == DA_has_permission(self, request, view)
    IN  IF super # "False" THEN super
        ELSE IF request.method \in SAFE_METHODS
        THEN CheckPermissions(self["read_permissions"], ViewKw(request, view))
        ELSE IF request.method = "PUT"
        THEN CheckPermissions(self["change_permissions"], ViewKw(request, view))
        ELSE IF request.method \in {"POST", "PATCH"}
        THEN CheckPermissions(self["add_permissions"], ViewKw(request, view))
        ELSE IF request.method = "DELETE"
        THEN CheckPermissions(self["delete_permissions"], ViewKw(request, view))
        ELSE "False"

\* a CRUD check without the DELETE branch
DACrud_has_permission_no_delete(self, request, view) ==
    LET super == DA_has_permission(self, request, view)
    IN  IF super # "False" THEN super
        ELSE IF request.method \in SAFE_METHODS
        THEN CheckPermissions(self["read_permissions"], ViewKw(request, view))
        ELSE IF request.method \in {"PUT", "PATCH"}
        THEN CheckPermissions(self["change_permissions"], ViewKw(request, view))
        ELSE IF request.method = "POST"
        THEN CheckPermissions(self["add_permissions"], ViewKw(request, view))
        ELSE "False"

DACrud_has_permission(self, request, view) ==
    LET super == DA_has_permission(self, request, view)
    IN  IF super # "False" THEN super
        ELSE IF request.method \in SAFE_METHODS
        THEN CheckPermissions(self["read_permissions"], ViewKw(request, view))
        ELSE IF request.method \in {"PUT", "PATCH"}
        THEN CheckPermissions(self["change_permissions"], ViewKw(request, view))
        ELSE IF request.method = "POST"
        THEN CheckPermissions(self["add_permissions"], ViewKw(request, view))
        ELSE IF request.method = "DELETE"
        THEN CheckPermissions(self["delete_permissions"], ViewKw(request, view))
        ELSE "False"

\* a CRUD object check whose last branch is an else: every remaining method
\* is decided by the delete tuple
DACrud_has_object_permission_else_delete(self, request, view, obj) ==
    LET super == DA_has_object_permission(self, request, view, obj)
    IN  IF super # "False" THEN super
        ELSE IF request.method \in SAFE_METHODS
        THEN CheckPermissions(self["object_read_permissions"], ObjKw(request, view, obj))
        ELSE IF request.method \in {"PUT", "PATCH"}
        THEN CheckPermissions(self["object_change_permissions"], ObjKw(request, view, obj))
        ELSE IF request.method = "POST"
        THEN CheckPermissions(self["object_add_permissions"], ObjKw(request, view, obj))
        ELSE CheckPermissions(self["object_delete_permissions"], ObjKw(request, view, obj))

DACrud_has_object_permission(self, request, view, obj) ==
    LET super == DA_has_object_permission(self, request, view, obj)
    IN  IF super # "False" THEN super
        ELSE IF request.method \in SAFE_METHODS
        THEN CheckPermissions(self["object_read_permissions"], ObjKw(request, view, obj))
        ELSE IF request.method \in {"PUT", "PATCH"}
        THEN CheckPermissions(self["object_change_permissions"], ObjKw(request, view, obj))
        ELSE IF request.method = "POST"
        THEN CheckPermissions(self["object_add_permissions"], ObjKw(request, view, obj))
        ELSE IF request.method = "DELETE"
        THEN CheckPermissions(self["object_delete_permissions"], ObjKw(request, view, obj))
        ELSE "False"

\* method resolution: the class's own has_permission / has_object_permission
has_permission(cls, self, request, view) ==
    CASE cls = "DABasePermission" -> DA_has_permission(self, request, view)
      [] cls = "DARWBasePermission" -> DARW_has_permission(self, request, view)
      [] cls = "DACrudBasePermission" -> DACrud_has_permission(self, request, view)

has_object_permission(cls, self, request, view, obj) ==
    CASE cls = "DABasePermission" -> DA_has_object_permission(self, request, view, obj)
      [] cls = "DARWBasePermission" -> DARW_has_object_permission(self, request, view, obj)
      [] cls = "DACrudBasePermission" -> DACrud_has_object_permission(self, request, view, obj)

(***************************************************************************)
(* The state machine: an instance of one of the classes, configured by     *)
(* the integrator and asked by the framework.                              *)
(***************************************************************************)
NoKw == [n \in {} |-> n]

\* the functions the integrator places in the tuples: has_access reads the
\* object, which only the object_* tuples are given
Assignable(level) ==
    IF level = "object"
    THEN {"deny_all", "allow_all", "allow_staff", "has_access"}
    ELSE {"deny_all", "allow_all", "allow_staff", "allow_superuser"}

RECURSIVE TuplesOf(_, _)
TuplesOf(n, level) ==
    IF n = 0 THEN {<<>>}
    ELSE TuplesOf(n - 1, level) \cup
         {Append(t, f) : t \in {u \in TuplesOf(n - 1, level) : Len(u) = n - 1},
                         f \in Assignable(level)}

Weight(t) == IF t = DefaultPermissions THEN 0 ELSE IF Len(t) = 0 THEN 1 ELSE Len(t)

RECURSIVE ConfigSize(_, _)
ConfigSize(self, attrs) ==
    IF attrs = {} THEN 0
    ELSE LET a == CHOOSE x \in attrs : TRUE
         IN  Weight(self[a]) + ConfigSize(self, attrs \ {a})

\* the threads of the framework that check requests on the one instance
Threads == {"t1", "t2"}

\* a thread that runs no check
IdleCall ==
    [phase |-> "idle", method |-> "none", kw |-> NoKw, invoked |-> <<>>, result |-> "none"]

\* no loop is running
NoFrame == [attr |-> "none", i |-> 0]

Init ==
    /\ policy \in Policies
    /\ perms = NewInstance(policy)
    /\ op = "idle"
    /\ called = "none"
    /\ args = <<>>
    /\ kwargs = NoKw
    /\ result = "none"
    /\ calls = [c \in Threads |-> IdleCall]
    /\ frames = [c \in Threads |-> NoFrame]

\* the integrator assigns a tuple to one attribute, once, while no check runs:
\* permission.attr = t
Configure(attr, t) ==
    /\ op = "idle"
    /\ attr \in DOMAIN perms
    /\ perms[attr] = DefaultPermissions
    /\ t # DefaultPermissions
    /\ ConfigSize(perms, DOMAIN perms) + Weight(t) <= MaxConfigSize
    /\ perms' = [perms EXCEPT ![attr] = t]
    /\ UNCHANGED <<policy, op, called, args, kwargs, result, calls, frames>>

\* the framework asks permission.has_permission(request, view)
HasPermission(request, view) ==
    /\ op = "idle"
    /\ op' = "has_permission"
    /\ called' = "none"
    /\ args' = <<>>
    /\ kwargs' = ViewKw(request, view)
    /\ result' = has_permission(policy, perms, request, view)
    /\ UNCHANGED <<policy, perms, calls, frames>>

\* the framework asks permission.has_object_permission(request, view, obj)
HasObjectPermission(request, view, obj) ==
    /\ op = "idle"
    /\ op' = "has_object_permission"
    /\ called' = "none"
    /\ args' = <<>>
    /\ kwargs' = ObjKw(request, view, obj)
    /\ result' = has_object_permission(policy, perms, request, view, obj)
    /\ UNCHANGED <<policy, perms, calls, frames>>

\* the caller takes the outcome: true, false or the exception
Return ==
    /\ op # "idle"
    /\ op' = "idle"
    /\ called' = "none"
    /\ args' = <<>>
    /\ kwargs' = NoKw
    /\ result' = "none"
    /\ UNCHANGED <<policy, perms, calls, frames>>

\* the tuples the integrator assigns to a view-level and to an object_* attribute
ViewTuples == TuplesOf(MaxConfigSize, "view")

ObjectTuples == TuplesOf(MaxConfigSize, "object")

\* the names of the object_* attributes
ObjectAttrNames == {"object_" \o a : a \in DACrud_Attrs \cup DARW_Attrs}

Next ==
    \/ /\ op = "idle"
       /\ LET room == MaxConfigSize - ConfigSize(perms, DOMAIN perms)
          IN  \/ \E attr \in DOMAIN perms \ ObjectAttrNames,
                    t \in {u \in ViewTuples : Weight(u) <= room} : Configure(attr, t)
              \/ \E attr \in DOMAIN perms \cap ObjectAttrNames,
                    t \in {u \in ObjectTuples : Weight(u) <= room} : Configure(attr, t)
    \/ /\ op = "idle"
       /\ \E request \in FrameworkRequests : HasPermission(request, NoView)
    \/ /\ op = "idle"
       /\ \E request \in FrameworkRequests, obj \in Objects :
            HasObjectPermission(request, NoView, obj)
    \/ Return

Spec == Init /\ [][Next]_vars

(***************************************************************************)
(* Direct calls of the module's permission functions, as the tests make    *)
(* them: f(request), f(request=request) and f().                           *)
(***************************************************************************)
ModuleFunctions == {"deny_all", "allow_all"} \cup GuardedFunctions

RequestKw(request) == [n \in {"request"} |-> request]

\* keyword arguments that name the view and no request
ViewOnlyKw == [n \in {"view"} |-> NoView]

Call(f, a, kw) ==
    /\ op = "idle"
    /\ op' = "call"
    /\ called' = f
    /\ args' = a
    /\ kwargs' = kw
    /\ result' = Invoke(f, a, kw)
    /\ UNCHANGED <<policy, perms, calls, frames>>

FuncNext ==
    \/ \E f \in ModuleFunctions, request \in Requests : Call(f, <<request>>, NoKw)
    \/ \E f \in ModuleFunctions, request \in Requests : Call(f, <<>>, RequestKw(request))
    \/ \E f \in ModuleFunctions, kw \in {NoKw, ViewOnlyKw} : Call(f, <<>>, kw)
    \/ Return

FuncSpec == Init /\ [][FuncNext]_vars

(***************************************************************************)
(* Direct calls of allow_authorized_key(request, view), positionally as    *)
(* the tests make them and by keyword as the classes do.                   *)
(***************************************************************************)
\* the key check reads no flag of the user: an anonymous and an authenticated one
KeyUsers == {u \in Users : ~u.is_staff /\ ~u.is_superuser}

KeyRequests == [user : KeyUsers, method : {"GET"}, META : Metas]

KeyInit == Init /\ policy = "DABasePermission"

KeyNext ==
    \/ /\ op = "idle"
       /\ \E request \in KeyRequests, view \in KeyViews :
                Call("allow_authorized_key", <<request, view>>, NoKw)
    \/ /\ op = "idle"
       /\ \E request \in KeyRequests, view \in KeyViews :
                Call("allow_authorized_key", <<>>, ViewKw(request, view))
    \/ Return

KeySpec == KeyInit /\ [][KeyNext]_vars

(***************************************************************************)
(* The checks step by step: each thread of the framework runs one          *)
(* has_permission or has_object_permission call at a time on the one       *)
(* instance, a step is one call of a permission function or the end of a   *)
(* loop, and the steps of the threads interleave.                          *)
(***************************************************************************)
\* the attribute a method reads: has_object_permission reads object_<name>
LevelAttr(method, name) ==
    IF method = "has_object_permission" THEN "object_" \o name ELSE name

\* the tuple the class checks after rw_permissions for the request's method,
\* "none" when it checks no further tuple
SelectedList(cls, method) ==
    CASE cls = "DABasePermission" -> "none"
      [] cls = "DARWBasePermission" ->
            IF method \in SAFE_METHODS THEN "read_permissions" ELSE "write_permissions"
      [] cls = "DACrudBasePermission" ->
            IF method \in SAFE_METHODS THEN "read_permissions"
            ELSE IF method \in {"PUT", "PATCH"} THEN "change_permissions"
            ELSE IF method = "POST" THEN "add_permissions"
            ELSE IF method = "DELETE" THEN "delete_permissions"
            ELSE "none"

\* a loop that goes on after a function returned true
ReturnsOnErrorOnly(r) == r \notin {"True", "False"}

\* a loop that takes an exception for a false
ReturnsOnTrueOnly(r) == r = "True"

\* `if permission(...): return True` leaves the loop with the outcome `r`:
\* the function returned true, or it raised and the exception propagates
Returns(r) == r # "False"

\* the keyword arguments after the function ran: allow_authorized_key looks
\* the header up in request.META, no function assigns to an argument
ArgsAfter(f, kw) ==
    IF f = "allow_authorized_key"
    THEN [kw EXCEPT !["request"].META = DictAfterGet(@, "HTTP_AUTHORIZATION")]
    ELSE kw

\* every check runs in the frame of its own thread
SharedFrame(c) == "t1"

\* the frame that holds the loop of thread c's check: its own
Frame(c) == c

\* the requests, views and objects of the step-by-step checks
StepUsers ==
    {u \in Users : ~u.is_superuser /\ (u.is_staff <=> u.is_authenticated)}

StepMetas == {NoMeta, [n \in {"HTTP_AUTHORIZATION"} |-> PyStr(<<"a">>)]}

StepRequests == [user : StepUsers, method : {"GET", "POST"}, META : StepMetas]

\* a view with the key "a" and a view whose authorized_keys is the str "a"
StepViews ==
    {[authorized_keys |-> PySeq("tuple", <<PyStr(<<"a">>)>>)],
     [authorized_keys |-> PyStr(<<"a">>)]}

\* on the misconfigured view the header makes no difference
StepArgs ==
    {av \in StepRequests \X StepViews :
        IsTupleOrList(av[2].authorized_keys) \/ av[1].META # NoMeta}

StepObjects == {[allows_access |-> TRUE]}

\* the tuples a subclass sets: the default, and a guarded function and the
\* key check in both orders
StepTuples ==
    {DefaultPermissions,
     <<"allow_staff", "allow_authorized_key">>,
     <<"allow_authorized_key", "allow_staff">>}

\* class Subclass(cls): rw_permissions = rw; read_permissions = read; every
\* other tuple = write; and the same for the object_* attributes
Subclassed(cls, rw, read, write) ==
    [a \in Attrs(cls) |->
        IF a \in {"rw_permissions", "object_rw_permissions"} THEN rw
        ELSE IF a \in {"read_permissions", "object_read_permissions"} THEN read
        ELSE write]

AllIdle == \A c \in Threads : calls[c].phase = "idle"

\* the integrator sets the tuples while no check runs
StepConfigure(rw, read, write) ==
    /\ AllIdle
    /\ perms = NewInstance(policy)
    /\ perms' = Subclassed(policy, rw, read, write)
    /\ perms' # perms
    /\ UNCHANGED <<policy, op, called, args, kwargs, result, calls, frames>>

\* thread c enters has_permission or has_object_permission: the loop over
\* rw_permissions (object_rw_permissions) starts
Begin(c, method, kw) ==
    /\ calls[c].phase = "idle"
    /\ calls' = [calls EXCEPT ![c] =
                    [phase |-> "running", method |-> method, kw |-> kw,
                     invoked |-> <<>>, result |-> "none"]]
    /\ frames' = [frames EXCEPT ![Frame(c)] =
                    [attr |-> LevelAttr(method, "rw_permissions"), i |-> 1]]
    /\ UNCHANGED <<policy, perms, op, called, args, kwargs, result>>

\* `if permission(request=request, view=view): return True` for the next
\* function of the tuple
InvokeNext(c) ==
    LET frame == frames[Frame(c)]
    IN  /\ calls[c].phase = "running"
        /\ frame.attr \in DOMAIN perms
        /\ frame.i <= Len(perms[frame.attr])
        /\ LET permission == perms[frame.attr][frame.i]
               r == Invoke(permission, <<>>, calls[c].kw)
               entry == [attr |-> frame.attr, i |-> frame.i, permission |-> permission,
                         outcome |-> r,
                         wrapped |-> CallsWrapped(permission, <<>>, calls[c].kw)]
           IN  /\ calls' = [calls EXCEPT
                                ![c].kw = ArgsAfter(permission, @),
                                ![c].invoked = Append(@, entry),
                                ![c].phase = IF Returns(r) THEN "done" ELSE "running",
                                ![c].result = IF Returns(r) THEN r ELSE "none"]
               /\ frames' = [frames EXCEPT ![Frame(c)] =
                                IF Returns(r) THEN NoFrame ELSE [@ EXCEPT !.i = @ + 1]]
        /\ UNCHANGED <<policy, perms, op, called, args, kwargs, result>>

\* the tuple is exhausted: after rw_permissions the tuple selected by the
\* request's method is checked, after that one the method returns False
LoopEnds(c) ==
    LET frame == frames[Frame(c)]
        method == calls[c].method
        selected == SelectedList(policy, calls[c].kw["request"].method)
    IN  /\ calls[c].phase = "running"
        /\ frame.attr \in DOMAIN perms
        /\ frame.i > Len(perms[frame.attr])
        /\ IF frame.attr = LevelAttr(method, "rw_permissions") /\ selected # "none"
           THEN /\ frames' = [frames EXCEPT ![Frame(c)] =
                                [attr |-> LevelAttr(method, selected), i |-> 1]]
                /\ calls' = calls
           ELSE /\ frames' = [frames EXCEPT ![Frame(c)] = NoFrame]
                /\ calls' = [calls EXCEPT ![c].phase = "done", ![c].result = "False"]
        /\ UNCHANGED <<policy, perms, op, called, args, kwargs, result>>

\* the framework takes the outcome of thread c's check
Finish(c) ==
    /\ calls[c].phase = "done"
    /\ calls' = [calls EXCEPT ![c] = IdleCall]
    /\ UNCHANGED <<policy, perms, op, called, args, kwargs, result, frames>>

StepNext ==
    \/ \E rw \in StepTuples, read \in StepTuples, write \in StepTuples :
            StepConfigure(rw, read, write)
    \/ \E c \in Threads, av \in StepArgs :
            Begin(c, "has_permission", ViewKw(av[1], av[2]))
    \/ \E c \in Threads, av \in StepArgs, obj \in StepObjects :
            Begin(c, "has_object_permission", ObjKw(av[1], av[2], obj))
    \/ \E c \in Threads : InvokeNext(c)
    \/ \E c \in Threads : LoopEnds(c)
    \/ \E c \in Threads : Finish(c)

StepSpec == Init /\ [][StepNext]_vars

(***************************************************************************)
(* What the properties below read from a state.                            *)
(***************************************************************************)
\* the request of the call whose outcome is being returned
GivenRequest == IF Len(args) > 0 THEN args[1] ELSE kwargs["request"]

RequestGiven == Len(args) > 0 \/ "request" \in DOMAIN kwargs

\* the view of the call whose outcome is being returned
GivenView == IF Len(args) > 1 THEN args[2] ELSE kwargs["view"]

InCheck == op \in {"has_permission", "has_object_permission"}

\* some function of the tuple returns true for the call's arguments
Grants(t, kw) == \E i \in 1..Len(t) : Invoke(t[i], <<>>, kw) = "True"

(***************************************************************************)
(* Properties of the permission functions, checked under FuncSpec.         *)
(***************************************************************************)
\* C8: called with a request, allow_staff returns true iff the identity is
\* authenticated and is_staff is set, whatever is_superuser is, and
\* allow_superuser returns true iff the identity is authenticated and
\* is_superuser is set, whatever is_staff is; both deny every
\* unauthenticated identity.
C8_FlagPredicates ==
    (op = "call" /\ RequestGiven) =>
        LET u == GivenRequest.user
        IN  /\ called = "allow_staff" =>
                result = Bool(u.is_authenticated /\ u.is_staff)
            /\ called = "allow_superuser" =>
                result = Bool(u.is_authenticated /\ u.is_superuser)

\* allow_staff was asked about an authenticated superuser without the staff
\* flag, and denied
C8_Witness ==
    /\ op = "call"
    /\ called = "allow_staff"
    /\ RequestGiven
    /\ GivenRequest.user = [is_authenticated |-> TRUE, is_staff |-> FALSE,
                            is_superuser |-> TRUE]
    /\ result = "False"

\* C9: called with a request, allow_authenticated returns false for every
\* unauthenticated identity and true for every authenticated one, whatever
\* its is_staff and is_superuser flags.
C9_AllowAuthenticated ==
    (op = "call" /\ called = "allow_authenticated" /\ RequestGiven) =>
        result = Bool(GivenRequest.user.is_authenticated)

\* allow_authenticated was asked about an authenticated identity with neither
\* flag, and allowed
C9_Witness ==
    /\ op = "call"
    /\ called = "allow_authenticated"
    /\ RequestGiven
    /\ GivenRequest.user = [is_authenticated |-> TRUE, is_staff |-> FALSE,
                            is_superuser |-> FALSE]
    /\ result = "True"

\* C10: a function wrapped by authenticated_users that is called with no
\* request, neither positional nor as the keyword `request`, raises TypeError
\* and returns no boolean.
C10_GuardInvocationError ==
    (op = "call" /\ called \in GuardedFunctions /\ ~RequestGiven) =>
        result = "TypeError"

\* allow_authenticated() was called without arguments and raised
C10_Witness ==
    /\ op = "call"
    /\ called = "allow_authenticated"
    /\ args = <<>>
    /\ kwargs = NoKw
    /\ result = "TypeError"

(***************************************************************************)
(* Properties of the permission classes, checked under Spec.               *)
(***************************************************************************)
StandardMethods == {"GET", "HEAD", "OPTIONS", "POST", "PUT", "PATCH", "DELETE"}

\* the view-level attributes of the instance and their object_* counterparts
ViewAttrs == {a \in DOMAIN perms : ("object_" \o a) \in DOMAIN perms}

ObjectAttrs == {"object_" \o a : a \in ViewAttrs}

\* C1: an instance of any of the three classes on which no attribute was
\* assigned denies every has_permission and has_object_permission call,
\* whatever the method, the identity and the object.
C1_FailClosedDefault ==
    (InCheck /\ perms = NewInstance(policy)) => result = "False"

\* an unconfigured DACrudBasePermission was asked about a DELETE by a staff
\* superuser, and denied
C1_Witness ==
    /\ op = "has_permission"
    /\ policy = "DACrudBasePermission"
    /\ perms = NewInstance(policy)
    /\ kwargs["request"].method = "DELETE"
    /\ kwargs["request"].user = [is_authenticated |-> TRUE, is_staff |-> TRUE,
                                 is_superuser |-> TRUE]
    /\ result = "False"

\* C2: DABasePermission.has_permission returns true iff at least one function
\* of rw_permissions returns true for the request, and false otherwise; an
\* empty tuple yields false.
C2_FlatOrSemantics ==
    (op = "has_permission" /\ policy = "DABasePermission") =>
        result = Bool(Grants(perms["rw_permissions"], kwargs))

\* the first function of a two-element rw_permissions denied, the second
\* allowed, and the call returned true
C2_Witness ==
    /\ op = "has_permission"
    /\ policy = "DABasePermission"
    /\ Len(perms["rw_permissions"]) = 2
    /\ Invoke(perms["rw_permissions"][1], <<>>, kwargs) = "False"
    /\ Invoke(perms["rw_permissions"][2], <<>>, kwargs) = "True"
    /\ result = "True"

\* C3: DARWBasePermission.has_permission returns OR(rw_permissions) OR
\* (OR(read_permissions) if the method is GET, HEAD or OPTIONS, else
\* OR(write_permissions)): every other method, known or not, is decided by
\* write_permissions and never by read_permissions.
C3_ReadWriteDispatch ==
    (op = "has_permission" /\ policy = "DARWBasePermission") =>
        result = Bool(\/ Grants(perms["rw_permissions"], kwargs)
                      \/ IF kwargs["request"].method \in {"GET", "HEAD", "OPTIONS"}
                         THEN Grants(perms["read_permissions"], kwargs)
                         ELSE Grants(perms["write_permissions"], kwargs))

\* a HEAD request that write_permissions would allow was denied by
\* read_permissions
C3_Witness ==
    /\ op = "has_permission"
    /\ policy = "DARWBasePermission"
    /\ kwargs["request"].method = "HEAD"
    /\ Grants(perms["write_permissions"], kwargs)
    /\ ~Grants(perms["read_permissions"], kwargs)
    /\ result = "False"

\* the tuple DACrudBasePermission selects for a standard method
CrudBucket(method) ==
    CASE method \in {"GET", "HEAD", "OPTIONS"} -> "read_permissions"
      [] method \in {"PUT", "PATCH"} -> "change_permissions"
      [] method = "POST" -> "add_permissions"
      [] method = "DELETE" -> "delete_permissions"

\* C4: for the seven standard methods DACrudBasePermission.has_permission
\* returns OR(rw_permissions) OR OR(L), L being read_permissions for GET,
\* HEAD and OPTIONS, change_permissions for PUT and PATCH, add_permissions
\* for POST and delete_permissions for DELETE; the other tuples have no
\* influence.
C4_CrudDispatch ==
    (/\ op = "has_permission"
     /\ policy = "DACrudBasePermission"
     /\ kwargs["request"].method \in StandardMethods) =>
        result = Bool(\/ Grants(perms["rw_permissions"], kwargs)
                      \/ Grants(perms[CrudBucket(kwargs["request"].method)], kwargs))

\* add_permissions = (allow_staff,) alone: a PATCH by a staff identity was
\* denied
C4_Witness ==
    /\ op = "has_permission"
    /\ policy = "DACrudBasePermission"
    /\ perms["add_permissions"] = <<"allow_staff">>
    /\ kwargs["request"].method = "PATCH"
    /\ kwargs["request"].user.is_authenticated
    /\ kwargs["request"].user.is_staff
    /\ result = "False"

\* C5: for a method that is none of the seven standard ones,
\* DACrudBasePermission.has_permission and has_object_permission return false
\* whenever rw_permissions (object_rw_permissions) does not grant, whatever
\* the read, add, change and delete tuples hold.
C5_CrudUnknownMethodDenied ==
    (/\ InCheck
     /\ policy = "DACrudBasePermission"
     /\ kwargs["request"].method \notin StandardMethods
     /\ ~Grants(perms[IF op = "has_permission" THEN "rw_permissions"
                      ELSE "object_rw_permissions"], kwargs)) =>
        result = "False"

\* object_delete_permissions and object_read_permissions are (allow_all,), and
\* an object check of a TRACE request was denied
C5_Witness ==
    /\ op = "has_object_permission"
    /\ policy = "DACrudBasePermission"
    /\ perms["object_delete_permissions"] = <<"allow_all">>
    /\ perms["object_read_permissions"] = <<"allow_all">>
    /\ kwargs["request"].method = "TRACE"
    /\ result = "False"

\* the tuple with every function that reads the object replaced by the
\* constant function of its answer for obj
AppliedTo(t, obj) ==
    [i \in 1..Len(t) |->
        IF t[i] = "has_access"
        THEN (IF obj.allows_access THEN "allow_all" ELSE "deny_all")
        ELSE t[i]]

\* the instance whose view-level attributes hold the object_* tuples
Mirrored(self, obj) ==
    [a \in DOMAIN self |->
        IF ("object_" \o a) \in DOMAIN self
        THEN AppliedTo(self["object_" \o a], obj)
        ELSE <<"deny_all">>]

\* C6: in each class has_object_permission decides as has_permission does
\* with the object_* tuples placed in the corresponding view-level
\* attributes, and every function it calls receives the target object: a
\* function that reads the object answers for that object.
C6_ObjectMirrorsView ==
    (op = "has_object_permission") =>
        result = has_permission(policy, Mirrored(perms, kwargs["obj"]),
                                kwargs["request"], kwargs["view"])

\* object_read_permissions = (allow_staff, has_access): a GET by an
\* unauthenticated identity for an object that allows access was allowed
C6_Witness ==
    /\ op = "has_object_permission"
    /\ policy = "DARWBasePermission"
    /\ perms["object_read_permissions"] = <<"allow_staff", "has_access">>
    /\ kwargs["request"].method = "GET"
    /\ ~kwargs["request"].user.is_authenticated
    /\ kwargs["obj"].allows_access
    /\ result = "True"

\* C7: when every object_* attribute is at its default, has_object_permission
\* returns false whatever the view-level attributes hold; when
\* object_rw_permissions is (allow_all,), it returns true for every request
\* and object.
C7_ViewLevelNeverGrantsObject ==
    (op = "has_object_permission") =>
        /\ (\A a \in ObjectAttrs : perms[a] = DefaultPermissions) => result = "False"
        /\ perms["object_rw_permissions"] = <<"allow_all">> => result = "True"

\* rw_permissions and read_permissions are (allow_all,), no object_* attribute
\* is assigned, and an object check was denied
C7_Witness ==
    /\ op = "has_object_permission"
    /\ perms["rw_permissions"] = <<"allow_all">>
    /\ "read_permissions" \in DOMAIN perms
    /\ perms["read_permissions"] = <<"allow_all">>
    /\ \A a \in ObjectAttrs : perms[a] = DefaultPermissions
    /\ kwargs["obj"].allows_access
    /\ result = "False"

(***************************************************************************)
(* Properties of allow_authorized_key, checked under KeySpec.              *)
(***************************************************************************)
\* C11: when view.authorized_keys is a list or a tuple of strings,
\* allow_authorized_key returns true iff the request carries an Authorization
\* header whose value equals one element; the beginning of a key, a key with
\* more characters and a missing header are denied, whoever the user is.
C11_AuthorizedKeyExactMatch ==
    (/\ op = "call"
     /\ called = "allow_authorized_key"
     /\ GivenView.authorized_keys.type \in {"tuple", "list"}) =>
        LET meta == GivenRequest.META
            items == GivenView.authorized_keys.items
        IN  result = Bool(/\ "HTTP_AUTHORIZATION" \in DOMAIN meta
                          /\ \E i \in 1..Len(items) :
                                /\ items[i].type = meta["HTTP_AUTHORIZATION"].type
                                /\ items[i].chars = meta["HTTP_AUTHORIZATION"].chars)

\* the header "a" is the beginning of the only key "aa", and was denied
C11_Witness ==
    /\ op = "call"
    /\ called = "allow_authorized_key"
    /\ GivenView.authorized_keys = PySeq("tuple", <<PyStr(<<"a", "a">>)>>)
    /\ "HTTP_AUTHORIZATION" \in DOMAIN GivenRequest.META
    /\ GivenRequest.META["HTTP_AUTHORIZATION"] = PyStr(<<"a">>)
    /\ result = "False"

\* C12: when view.authorized_keys is neither a list nor a tuple,
\* allow_authorized_key raises ImproperlyConfigured for every request, with a
\* matching, a different or no Authorization header, and returns no boolean.
C12_AuthorizedKeysMisconfigured ==
    (/\ op = "call"
     /\ called = "allow_authorized_key"
     /\ GivenView.authorized_keys.type \notin {"tuple", "list"}) =>
        result = "ImproperlyConfigured"

\* authorized_keys is the str "aa", the header carries "aa", and the call raised
C12_Witness ==
    /\ op = "call"
    /\ called = "allow_authorized_key"
    /\ GivenView.authorized_keys = PyStr(<<"a", "a">>)
    /\ "HTTP_AUTHORIZATION" \in DOMAIN GivenRequest.META
    /\ GivenRequest.META["HTTP_AUTHORIZATION"] = PyStr(<<"a", "a">>)
    /\ result = "ImproperlyConfigured"

(***************************************************************************)
(* More properties of the permission functions, checked under FuncSpec.    *)
(***************************************************************************)
\* C13: deny_all returns false and allow_all returns true whatever the
\* arguments are: for every identity, with the request given positionally or
\* by keyword, with a view only and with no argument at all; neither raises.
C13_ConstantPredicates ==
    (op = "call") =>
        /\ called = "deny_all" => result = "False"
        /\ called = "allow_all" => result = "True"

\* allow_all was called without any argument and returned true
C13_Witness ==
    /\ op = "call"
    /\ called = "allow_all"
    /\ args = <<>>
    /\ kwargs = NoKw
    /\ result = "True"

\* C17: a guarded function (allow_authenticated, allow_staff,
\* allow_superuser) returns a boolean when it is given the request, and the
\* same boolean whether the request is the first positional argument or the
\* keyword argument `request`.
C17_CallingConventions ==
    (op = "call" /\ called \in GuardedFunctions /\ RequestGiven) =>
        /\ result \in {"True", "False"}
        /\ result = Invoke(called, <<GivenRequest>>, NoKw)
        /\ result = Invoke(called, <<>>, RequestKw(GivenRequest))

\* allow_staff was called with the request of a staff user as its first
\* positional argument and granted
C17_Witness ==
    /\ op = "call"
    /\ called = "allow_staff"
    /\ Len(args) = 1
    /\ kwargs = NoKw
    /\ args[1].user.is_authenticated
    /\ args[1].user.is_staff
    /\ result = "True"

(***************************************************************************)
(* The CRUD class against the read/write class, checked under Spec.        *)
(***************************************************************************)
\* the DACrudBasePermission instance that holds the write tuples of a
\* DARWBasePermission instance as its add, change and delete tuples
CrudFrom(self) ==
    [a \in DACrud_Attrs |->
        IF a \in {"add_permissions", "change_permissions", "delete_permissions"}
        THEN self["write_permissions"]
        ELSE IF a \in {"object_add_permissions", "object_change_permissions",
                       "object_delete_permissions"}
        THEN self["object_write_permissions"]
        ELSE self[a]]

\* the DARWBasePermission instance that holds the add tuples of a
\* DACrudBasePermission instance as its write tuples
RWFrom(self) ==
    [a \in DARW_Attrs |->
        IF a = "write_permissions" THEN self["add_permissions"]
        ELSE IF a = "object_write_permissions" THEN self["object_add_permissions"]
        ELSE self[a]]

\* the add, change and delete tuples of the instance are one tuple, at the
\* view level and at the object level
WritesAlike(self) ==
    /\ self["add_permissions"] = self["change_permissions"]
    /\ self["add_permissions"] = self["delete_permissions"]
    /\ self["object_add_permissions"] = self["object_change_permissions"]
    /\ self["object_add_permissions"] = self["object_delete_permissions"]

\* C20: for the seven standard methods a DARWBasePermission instance with
\* rw=RW, read=R, write=W and the DACrudBasePermission instance with rw=RW,
\* read=R, add=change=delete=W return the same boolean from has_permission,
\* and with the object_* tuples from has_object_permission (the tuples hold
\* functions that do not raise).
C20_CrudRefinesReadWrite ==
    (InCheck /\ policy # "DABasePermission"
        /\ kwargs["request"].method \in StandardMethods) =>
        LET request == kwargs["request"]
            view == kwargs["view"]
            rw == IF policy = "DARWBasePermission" THEN perms ELSE RWFrom(perms)
            crud == IF policy = "DARWBasePermission" THEN CrudFrom(perms) ELSE perms
        IN  WritesAlike(crud) =>
                /\ result \in {"True", "False"}
                /\ IF op = "has_permission"
                   THEN /\ result = DARW_has_permission(rw, request, view)
                        /\ result = DACrud_has_permission(crud, request, view)
                   ELSE /\ result = DARW_has_object_permission(rw, request, view, kwargs["obj"])
                        /\ result = DACrud_has_object_permission(crud, request, view,
                                                                 kwargs["obj"])

\* a DARWBasePermission instance whose write tuple admits staff granted a
\* DELETE request of a staff user
C20_Witness ==
    /\ op = "has_permission"
    /\ policy = "DARWBasePermission"
    /\ perms["write_permissions"] = <<"allow_staff">>
    /\ perms["rw_permissions"] = DefaultPermissions
    /\ kwargs["request"].method = "DELETE"
    /\ result = "True"

(***************************************************************************)
(* Properties of the checks run step by step, checked under StepSpec.      *)
(***************************************************************************)
\* the threads whose check has started
Checking == {c \in Threads : calls[c].phase # "idle"}

\* the outcome of the thread's call when no other call runs
Alone(self, call) ==
    IF call.method = "has_permission"
    THEN has_permission(policy, self, call.kw["request"], call.kw["view"])
    ELSE has_object_permission(policy, self, call.kw["request"], call.kw["view"],
                               call.kw["obj"])

\* the function raised
Raised(r) == r \notin {"True", "False"}

\* C14: in all three classes, in has_permission and in has_object_permission,
\* when a function of rw_permissions or of the tuple selected by the method
\* is called and raises, no further function is called, the exception is
\* not turned into a boolean, and the caller gets that same exception.
C14_ErrorsPropagate ==
    \A c \in Checking :
        LET invoked == calls[c].invoked
        IN  \A j \in 1..Len(invoked) :
                Raised(invoked[j].outcome) =>
                    /\ j = Len(invoked)
                    /\ calls[c].phase = "done"
                    /\ calls[c].result = invoked[j].outcome

\* DACrudBasePermission.has_object_permission of a POST request: deny_all of
\* object_rw_permissions and the guard of allow_staff returned false, then
\* allow_authorized_key of object_add_permissions raised, and so did the call
C14_Witness ==
    \E c \in Threads :
        /\ policy = "DACrudBasePermission"
        /\ calls[c].phase = "done"
        /\ calls[c].method = "has_object_permission"
        /\ Len(calls[c].invoked) = 3
        /\ calls[c].invoked[3].attr = "object_add_permissions"
        /\ calls[c].invoked[3].permission = "allow_authorized_key"
        /\ calls[c].result = "ImproperlyConfigured"

\* C16: in one call the functions are called in the order of the tuples,
\* first every function of rw_permissions and then the functions of the
\* tuple selected by the method (the object_* tuples in
\* has_object_permission); only the last function called may have returned
\* true, so none is called after one that returned true; and for an
\* unauthenticated user the guard of a guarded function returns false
\* without calling the wrapped function.
C16_OrderAndShortCircuit ==
    \A c \in Checking :
        LET invoked == calls[c].invoked
            request == calls[c].kw["request"]
            rw == LevelAttr(calls[c].method, "rw_permissions")
            selected == SelectedList(policy, request.method)
            n == Len(perms[rw])
        IN  \A j \in 1..Len(invoked) :
                /\ IF j <= n
                   THEN invoked[j].attr = rw /\ invoked[j].i = j
                   ELSE /\ selected # "none"
                        /\ invoked[j].attr = LevelAttr(calls[c].method, selected)
                        /\ invoked[j].i = j - n
                /\ invoked[j].permission = perms[invoked[j].attr][invoked[j].i]
                /\ j < Len(invoked) => invoked[j].outcome = "False"
                /\ invoked[j].outcome = "True" =>
                        calls[c].phase = "done" /\ calls[c].result = "True"
                /\ (invoked[j].permission \in GuardedFunctions
                        /\ ~request.user.is_authenticated) =>
                        ~invoked[j].wrapped /\ invoked[j].outcome = "False"

\* DARWBasePermission.has_permission of a GET request: after deny_all of
\* rw_permissions the first function of read_permissions returned true and
\* the second one was not called
C16_Witness ==
    \E c \in Threads :
        /\ policy = "DARWBasePermission"
        /\ calls[c].phase = "done"
        /\ calls[c].method = "has_permission"
        /\ perms["rw_permissions"] = DefaultPermissions
        /\ Len(perms["read_permissions"]) = 2
        /\ Len(calls[c].invoked) = 2
        /\ calls[c].invoked[2].attr = "read_permissions"
        /\ calls[c].result = "True"

\* C18: no step of a running has_permission or has_object_permission call,
\* whatever the class and the outcome, changes a *_permissions attribute of
\* the instance or the call's arguments: the request with its user, method
\* and headers, the view with its authorized_keys, and the object.
C18_ReadOnly ==
    [][\A c \in Threads :
            calls[c].phase = "running" =>
                /\ perms' = perms
                /\ calls'[c].kw = calls[c].kw]_vars

\* a call in which allow_authorized_key looked the header up has ended, and
\* its request still carries the header
C18_Witness ==
    \E c \in Threads :
        /\ calls[c].phase = "done"
        /\ \E j \in 1..Len(calls[c].invoked) :
                calls[c].invoked[j].permission = "allow_authorized_key"
        /\ "HTTP_AUTHORIZATION" \in DOMAIN calls[c].kw["request"].META
        /\ calls[c].result = "True"

\* C19: with the steps of the threads' calls interleaved in any order on the
\* one instance, and no attribute assigned while a call runs, every call
\* ends with the outcome it has when it runs alone with the same request,
\* view and object.
C19_Reentrant ==
    \A c \in Threads :
        calls[c].phase = "done" => calls[c].result = Alone(perms, calls[c])

\* thread t1 has ended its call after three functions while thread t2, with
\* other arguments, is between the functions of its call
C19_Witness ==
    /\ policy = "DARWBasePermission"
    /\ calls["t1"].phase = "done"
    /\ calls["t1"].method = "has_permission"
    /\ Len(calls["t1"].invoked) = 3
    /\ calls["t2"].phase = "running"
    /\ Len(calls["t2"].invoked) = 2
    /\ calls["t2"].kw # calls["t1"].kw

\* the orders of n elements
Permutations(n) ==
    {p \in [1..n -> 1..n] : \A i, j \in 1..n : p[i] = p[j] => i = j}

Permuted(t, p) == [i \in 1..Len(t) |-> t[p[i]]]

\* C15, as stated: a call has the same outcome (true, false or the exception)
\* on every instance that holds the functions of one of its tuples in
\* another order.
C15_OrderIndependent ==
    \A c \in Threads :
        calls[c].phase = "done" =>
            \A a \in DOMAIN perms :
                \A p \in Permutations(Len(perms[a])) :
                    Alone([perms EXCEPT ![a] = Permuted(perms[a], p)], calls[c])
                        = calls[c].result

\* C15, amended: a call has the same outcome on every instance that holds
\* the functions of one of its tuples in another order, provided that no
\* function of that tuple raises for the call's arguments.
C15_OrderIndependentUnlessRaising ==
    \A c \in Threads :
        calls[c].phase = "done" =>
            \A a \in DOMAIN perms :
                (\A i \in 1..Len(perms[a]) :
                    ~Raised(Invoke(perms[a][i], <<>>, calls[c].kw))) =>
                    \A p \in Permutations(Len(perms[a])) :
                        Alone([perms EXCEPT ![a] = Permuted(perms[a], p)], calls[c])
                            = calls[c].result

\* rw_permissions holds allow_staff before allow_authorized_key, neither
\* raises, and the second one granted the request of an anonymous user
C15_Witness ==
    \E c \in Threads :
        /\ calls[c].phase = "done"
        /\ calls[c].method = "has_permission"
        /\ perms["rw_permissions"] = <<"allow_staff", "allow_authorized_key">>
        /\ Len(calls[c].invoked) = 2
        /\ calls[c].invoked[1].outcome = "False"
        /\ calls[c].result = "True"

(***************************************************************************)
(* Subclasses that set their tuples, asked one request at a time: the      *)
(* tuples hold a guarded function and the key check, the views carry       *)
(* authorized_keys and the requests every method.                          *)
(***************************************************************************)
MonoRequests == [user : StepUsers, method : Methods, META : StepMetas]

MonoArgs ==
    {av \in MonoRequests \X StepViews :
        IsTupleOrList(av[2].authorized_keys) \/ av[1].META # NoMeta}

\* the tuples of the subclasses: those of the step-by-step checks, the empty
\* tuple and the open one
MonoTuples == StepTuples \cup {<<>>, <<"allow_all">>}

MonoNext ==
    \/ /\ op = "idle"
       /\ \E rw \in MonoTuples, read \in MonoTuples, write \in MonoTuples :
                StepConfigure(rw, read, write)
    \/ /\ op = "idle"
       /\ \E av \in MonoArgs : HasPermission(av[1], av[2])
    \/ /\ op = "idle"
       /\ \E av \in MonoArgs, obj \in Objects : HasObjectPermission(av[1], av[2], obj)
    \/ Return

MonoSpec == Init /\ [][MonoNext]_vars

(***************************************************************************)
(* Properties of the configuration, checked under MonoSpec.                *)
(***************************************************************************)
\* the outcome of the call being returned on another instance of the class
OutcomeOn(self) ==
    IF op = "has_permission"
    THEN has_permission(policy, self, kwargs["request"], kwargs["view"])
    ELSE has_object_permission(policy, self, kwargs["request"], kwargs["view"],
                               kwargs["obj"])

\* the functions that do not raise for the arguments of the call
NonRaising ==
    {f \in PermissionFunctions \cup {"allow_authorized_key"} :
        ~Raised(Invoke(f, <<>>, kwargs))}

\* C21: in each class, a has_permission or has_object_permission call that
\* returns true returns true as well on the instance with a function that
\* does not raise appended to any one of its tuples, and a call that returns
\* false does not return true on the instance with any one of its tuples
\* replaced by (deny_all,).
C21_Monotone ==
    InCheck =>
        /\ result = "True" =>
                \A a \in DOMAIN perms, f \in NonRaising :
                    OutcomeOn([perms EXCEPT ![a] = Append(@, f)]) = "True"
        /\ result = "False" =>
                \A a \in DOMAIN perms :
                    OutcomeOn([perms EXCEPT ![a] = <<"deny_all">>]) # "True"

\* the key check, second in rw_permissions, granted the request of an
\* anonymous user, and grants it with deny_all appended to that tuple
C21_Witness ==
    /\ op = "has_permission"
    /\ perms["rw_permissions"] = <<"allow_staff", "allow_authorized_key">>
    /\ ~kwargs["request"].user.is_authenticated
    /\ result = "True"
    /\ OutcomeOn([perms EXCEPT !["rw_permissions"] = Append(@, "deny_all")]) = "True"

====
